---- MODULE Spec2Model ----
(***************************************************************************)
(* Model of httpx/_main.py: the command line client's main() together with *)
(* the presentation helpers it calls (format_*_headers, print_*,           *)
(* print_redirects, download_response, validate_json).                     *)
(*                                                                         *)
(* Client, Request, Response and RequestError live in httpx/_client.py,    *)
(* httpx/_models.py and httpx/_exceptions.py.  The parts of them main()    *)
(* relies on (when the event hooks fire, which response stream() hands     *)
(* back, is_success, num_bytes_downloaded, what closing does) are modelled *)
(* from the specification document and are named Client_* or Response_*.   *)
(***************************************************************************)
EXTENDS Integers, Sequences, FiniteSets, TLC

(***************************************************************************)
(* Bounds of the model.                                                    *)
(***************************************************************************)
MaxHops == 2

MaxChunks == 2

MaxHeaders == 2

(***************************************************************************)
(* Text.  A str is a sequence of code points, a bytes object a sequence of *)
(* byte values 0..255.                                                     *)
(***************************************************************************)
LF == 10

SP == 32

COLON == 58

RECURSIVE Concat(_)
Concat(seqs) ==
    IF seqs = <<>> THEN <<>> ELSE Head(seqs) \o Concat(Tail(seqs))

RECURSIVE SumLen(_)
SumLen(seqs) ==
    IF seqs = <<>> THEN 0 ELSE Len(Head(seqs)) + SumLen(Tail(seqs))

\* bytes.decode("ascii"): the same code points when every byte is below 128,
\* UnicodeDecodeError otherwise.
IsAscii(bytes) ==
    \A i \in 1..Len(bytes) : bytes[i] < 128

decode_ascii(bytes) ==
    [ok |-> IsAscii(bytes), text |-> IF IsAscii(bytes) THEN bytes ELSE <<>>]

\* "\n".join(lines)
RECURSIVE JoinLines(_)
JoinLines(lines) ==
    IF lines = <<>> THEN <<>>
    ELSE IF Len(lines) = 1 THEN lines[1]
    ELSE lines[1] \o <<LF>> \o JoinLines(Tail(lines))

\* str(n) for a natural number
RECURSIVE StrOfNat(_)
StrOfNat(n) ==
    IF n < 10 THEN <<48 + n>> ELSE StrOfNat(n \div 10) \o <<48 + (n % 10)>>

\* f"{name.decode('ascii')}: {value.decode('ascii')}" for one raw header pair
HeaderLine(pair) ==
    LET n == decode_ascii(pair[1])
        v == decode_ascii(pair[2])
    IN  [ok |-> n.ok /\ v.ok, text |-> n.text \o <<COLON, SP>> \o v.text]

\* The list comprehension over headers.raw, in the order of the sequence; the
\* first pair that does not decode raises and no text is produced.
HeaderLines(raw) ==
    [ok   |-> \A i \in 1..Len(raw) : HeaderLine(raw[i]).ok,
     lines |-> [i \in 1..Len(raw) |-> HeaderLine(raw[i]).text]]

HTTP11 == <<72, 84, 84, 80, 47, 49, 46, 49>>

format_request_headers(request) ==
    LET t  == decode_ascii(request.target)
        hl == HeaderLines(request.headers)
        first == request.method \o <<SP>> \o t.text \o <<SP>> \o HTTP11
    IN  [ok   |-> t.ok /\ hl.ok,
         text |-> IF t.ok /\ hl.ok THEN JoinLines(<<first>> \o hl.lines) ELSE <<>>]

format_response_headers(response) ==
    LET hl == HeaderLines(response.headers)
        first == response.http_version \o <<SP>> \o StrOfNat(response.status_code)
                     \o <<SP>> \o response.reason_phrase
    IN  [ok   |-> hl.ok,
         text |-> IF hl.ok THEN JoinLines(<<first>> \o hl.lines) ELSE <<>>]


(***************************************************************************)
(* Python values of the --json option, after json.loads.  t is the type,   *)
(* n the number (int, bool as 0/1) or the length (dict, list, str).        *)
(***************************************************************************)
PyNone == [t |-> "None", n |-> 0]

NoJson == "<absent>"

JsonTexts == {"null", "0", "false", "{}", "{\"a\": 1}", "a=1"}

\* json.loads: the parsed value, or raises json.JSONDecodeError
json_loads(text) ==
    CASE text = "null"         -> [ok |-> TRUE,  value |-> PyNone]
      [] text = "0"            -> [ok |-> TRUE,  value |-> [t |-> "int",  n |-> 0]]
      [] text = "false"        -> [ok |-> TRUE,  value |-> [t |-> "bool", n |-> 0]]
      [] text = "{}"           -> [ok |-> TRUE,  value |-> [t |-> "dict", n |-> 0]]
      [] text = "{\"a\": 1}"   -> [ok |-> TRUE,  value |-> [t |-> "dict", n |-> 1]]
      [] OTHER                 -> [ok |-> FALSE, value |-> PyNone]

\* validate_json(ctx, param, value): None stays None, a text is parsed, a
\* text that does not parse raises click.BadParameter.
validate_json(value) ==
    IF value = NoJson THEN [ok |-> TRUE, value |-> PyNone] ELSE json_loads(value)

\* Python truth value of a parsed JSON value
Truthy(v) ==
    CASE v.t = "None"            -> FALSE
      [] v.t \in {"int", "bool"} -> v.n # 0
      [] OTHER                   -> v.n > 0

\* Lines 393-394.  m = "" stands for an omitted (None) or empty --method;
\* content = "" for an omitted or empty --content; data and files are tuples.
ResolvedMethod(m, content, data, files, json_value) ==
    IF m = ""
    THEN (IF content # "" \/ data # <<>> \/ files # <<>> \/ Truthy(json_value)
          THEN "POST" ELSE "GET")
    ELSE m

(***************************************************************************)
(* Responses.  A response is what the transport hands over once the        *)
(* headers have arrived; its body is a lazy sequence of chunks.            *)
(***************************************************************************)
ContentLength == <<67, 111, 110, 116, 101, 110, 116, 45, 76, 101, 110, 103, 116, 104>>

XName == <<88>>

\* header blocks a server may send: Content-Length: 3, and a header whose
\* value carries a byte above 127 (obs-text, e.g. Latin-1)
HdrLength == << <<ContentLength, <<51>>>> >>

HdrLatin1 == << <<XName, <<99, 97, 102, 233>>>> >>

ContentType == <<67, 111, 110, 116, 101, 110, 116, 45, 84, 121, 112, 101>>

MimeJson == <<97, 112, 112, 108, 105, 99, 97, 116, 105, 111, 110, 47, 106, 115, 111, 110>>

MimeHtml == <<116, 101, 120, 116, 47, 104, 116, 109, 108>>

\* Content-Type: application/json; charset=utf-8
HdrJson == << <<ContentType, MimeJson \o <<59, 32, 99, 104, 97, 114, 115, 101, 116, 61, 117, 116, 102, 45, 56>>>> >>

\* Content-Type: text/html
HdrHtml == << <<ContentType, MimeHtml>> >>

\* Content-Type: x/y, a type no lexer is registered for
HdrUnknown == << <<ContentType, <<120, 47, 121>>>> >>

RunHeaders == {HdrLength, HdrLatin1}

\* the header blocks of the runs whose printed body is examined: no content
\* type, JSON with a parameter, HTML, and an unregistered type
ShowHeaders == {HdrLength, HdrJson, HdrHtml, HdrUnknown}

StatusCodes == {200, 301, 399, 400}

RedirectCodes == {301}

\* body chunks: "1" and "[1]"
Chunks == {<<49>>, <<91, 49, 93>>}

NoResp ==
    [hop |-> 0, status_code |-> 0, has_redirect_location |-> FALSE,
     http_version |-> <<>>, reason_phrase |-> <<>>, headers |-> <<>>]

\* The responses the transport may deliver for hop h.  A redirect chain that
\* is followed ends within MaxHops hops.
Client_Responses(h, follow, blocks) ==
    {r \in [hop : {h}, status_code : StatusCodes, has_redirect_location : BOOLEAN,
            http_version : {HTTP11}, reason_phrase : {<<79, 75>>}, headers : blocks] :
        /\ r.has_redirect_location => r.status_code \in RedirectCodes
        /\ (follow /\ h >= MaxHops) => ~r.has_redirect_location}

\* response.headers.get(name): the value of the first header of that name
HeadersGet(headers, name) ==
    LET idx == {i \in 1..Len(headers) : headers[i][1] = name}
    IN  IF idx = {} THEN <<>>
        ELSE headers[CHOOSE i \in idx : \A j \in idx : i <= j][2]

\* Response.is_success, as the specification defines success: status < 400
Response_is_success(r) ==
    r.status_code < 400


\* Response.num_bytes_downloaded: the cumulative count of the bytes the lazy
\* body has yielded so far
Response_num_bytes_downloaded(chunks) ==
    SumLen(chunks)

\* int(text) for a text of decimal digits
RECURSIVE IntOfStr(_)
IntOfStr(text) ==
    IF text = <<>> THEN 0
    ELSE 10 * IntOfStr(SubSeq(text, 1, Len(text) - 1)) + (text[Len(text)] - 48)

(***************************************************************************)
(* Command lines.                                                          *)
(***************************************************************************)
Pair == <<"k", "v">>

\* every combination of the request body options
AllBodies ==
    [content : {"", "x"}, data : {<<>>, <<Pair>>}, files : {<<>>, <<Pair>>},
     json_text : {NoJson} \cup JsonTexts]

\* the body options of the runs that are followed to their exit
RunBodies ==
    {b \in AllBodies : /\ b.data = <<>> /\ b.files = <<>>
                       /\ \/ b.content = "" /\ b.json_text = NoJson
                          \/ b.content = "x" /\ b.json_text = "{\"a\": 1}"}

ArgsOf(bodies) ==
    {[method |-> m, content |-> b.content, data |-> b.data, files |-> b.files,
      json_text |-> b.json_text, follow_redirects |-> f, download |-> d, verbose |-> v] :
        m \in {"", "PUT"}, b \in bodies, f \in BOOLEAN, d \in BOOLEAN, v \in BOOLEAN}

(***************************************************************************)
(* State of one run of main().                                             *)
(***************************************************************************)
VARIABLES
    args,         \* the parsed command line
    json,         \* the --json option after its callback
    method,       \* the local variable method
    event_hooks,  \* the dict handed to Client
    pc,           \* where the run is
    client,       \* "none", "open", "closed"
    opens,        \* how many client sessions the run has opened
    sent,         \* how many requests have been handed to the transport
    hop,          \* the hop the Client is working on
    resp,         \* the response the Client holds for that hop
    response,     \* the variable response of main, NoResp while unbound
    open,         \* the hops whose response stream is open
    received,     \* the chunks the current response's body has yielded
    chain,        \* the status codes of the responses obtained, in order
    out,          \* what has been printed to the console, in order
    writes,       \* the chunks written to the download file, in order
    reported,     \* the completed= values given to progress.update, in order
    task,         \* the progress task
    exc,          \* the exception that is propagating, "" if none
    exitCode,     \* the process exit status, NoExit until the run has ended
    fmtIn,        \* header rendering: the message rendered
    fmtOut        \* header rendering: the results, in order

vars ==
    <<args, json, method, event_hooks, pc, client, opens, sent, hop, resp, response,
      open, received, chain, out, writes, reported, task, exc, exitCode, fmtIn, fmtOut>>

NoExit == -1

NoTask == [started |-> FALSE, total |-> -1, completed |-> 0]

Event(kind, h, n) ==
    [kind |-> kind, hop |-> h, n |-> n, lexer |-> "", text |-> <<>>]

InitState(a, start, message) ==
    /\ args = a
    /\ json = PyNone
    /\ method = a.method
    /\ event_hooks = [request |-> <<>>, response |-> <<>>]
    /\ pc = start
    /\ client = "none"
    /\ opens = 0
    /\ sent = 0
    /\ hop = 0
    /\ resp = NoResp
    /\ response = NoResp
    /\ open = {}
    /\ received = <<>>
    /\ chain = <<>>
    /\ out = <<>>
    /\ writes = <<>>
    /\ reported = <<>>
    /\ task = NoTask
    /\ exc = ""
    /\ exitCode = NoExit
    /\ fmtIn = message
    /\ fmtOut = <<>>

NoMessage == [kind |-> "none", headers |-> <<>>]

Init ==
    \E a \in ArgsOf(RunBodies) : InitState(a, "options", NoMessage)

InitArgs ==
    \E a \in ArgsOf(AllBodies) : InitState(a, "options", NoMessage)


(***************************************************************************)
(* What the presentation helpers print.                                    *)
(***************************************************************************)
\* print_request_headers: the request block, then an empty line
print_request_headers(h) ==
    <<Event("request_headers", h, 0), Event("blank", h, 0)>>

\* print_response_headers: the response block
print_response_headers(h) ==
    <<Event("response_headers", h, 0)>>

\* print_delimiter: an empty line
print_delimiter(h) ==
    <<Event("blank", h, 0)>>

\* str.partition(sep)[0]: the text before the first sep
Partition(text, sep) ==
    LET idx == {i \in 1..Len(text) : text[i] = sep}
    IN  IF idx = {} THEN text
        ELSE SubSeq(text, 1, (CHOOSE i \in idx : \A j \in idx : i <= j) - 1)

\* str.strip(), for spaces
RECURSIVE Strip(_)
Strip(text) ==
    IF text = <<>> THEN text
    ELSE IF Head(text) = SP THEN Strip(Tail(text))
    ELSE IF text[Len(text)] = SP THEN Strip(SubSeq(text, 1, Len(text) - 1))
    ELSE text

SEMICOLON == 59

\* pygments.lexers.get_lexer_for_mimetype(mime).name, "" for ClassNotFound
LexerNameForMimetype(mime) ==
    CASE mime = MimeJson -> "JSON"
      [] mime = MimeHtml -> "HTML"
      [] OTHER           -> ""

\* lines 93-101
get_lexer_for_response(r) ==
    LET content_type == HeadersGet(r.headers, ContentType)
    IN  IF content_type # <<>>
        THEN LexerNameForMimetype(Strip(Partition(content_type, SEMICOLON)))
        ELSE ""

\* str.lower() of a lexer name
Lower(name) ==
    CASE name = "JSON" -> "json"
      [] name = "HTML" -> "html"
      [] OTHER         -> name

\* Response.text: the content decoded, a byte that does not decode replaced
\* by U+FFFD
Response_text(content) ==
    [i \in 1..Len(content) |-> IF content[i] < 128 THEN content[i] ELSE 65533]

IsDigits(text) ==
    /\ text # <<>>
    /\ \A i \in 1..Len(text) : text[i] \in 48..57
    /\ Len(text) > 1 => text[1] # 48

\* Response.json(): the parsed body, or raises ValueError.  The bodies of
\* the model are numbers, the array [1], and texts that are not JSON.
Response_json(content) ==
    IF IsDigits(content)
    THEN [ok |-> TRUE, value |-> [t |-> "int", n |-> IntOfStr(content)]]
    ELSE IF content = <<91, 49, 93>>
    THEN [ok |-> TRUE, value |-> [t |-> "list", n |-> 1]]
    ELSE [ok |-> FALSE, value |-> PyNone]

\* json.dumps(data, indent=4) of those values
json_dumps_indent4(v) ==
    IF v.t = "int" THEN StrOfNat(v.n)
    ELSE <<91, LF, SP, SP, SP, SP, 49, LF, 93>>

BodyEvent(h, content, lexer, text) ==
    [kind |-> "body", hop |-> h, n |-> Len(content), lexer |-> lexer, text |-> text]

\* A plausible slip: a body that does not parse as JSON is not printed.
print_response_strict(r, content) ==
    LET lexer_name == get_lexer_for_response(r)
        data == Response_json(content)
    IN  IF lexer_name # "" /\ Lower(lexer_name) = "json"
        THEN <<BodyEvent(r.hop, content, lexer_name,
                         IF data.ok THEN json_dumps_indent4(data.value) ELSE <<>>)>>
        ELSE <<BodyEvent(r.hop, content, lexer_name, Response_text(content))>>

\* print_response, lines 152-167: what is printed, and with which lexer
print_response(r, content) ==
    LET lexer_name == get_lexer_for_response(r)
        data == Response_json(content)
    IN  IF lexer_name # ""
        THEN IF Lower(lexer_name) = "json"
             THEN <<BodyEvent(r.hop, content, lexer_name,
                              IF data.ok THEN json_dumps_indent4(data.value)
                              ELSE Response_text(content))>>
             ELSE <<BodyEvent(r.hop, content, lexer_name, Response_text(content))>>
        ELSE <<BodyEvent(r.hop, content, "", Response_text(content))>>

(***************************************************************************)
(* main(), up to the call of client.stream.                                *)
(***************************************************************************)

\* click runs the --json callback before main: a text that is not JSON ends
\* the command with BadParameter and main is not called.
validate_json_callback ==
    /\ pc = "options"
    /\ LET v == validate_json(args.json_text)
       IN  /\ json' = v.value
           /\ pc' = IF v.ok THEN "main" ELSE "bad_parameter"
    /\ UNCHANGED <<args, method, event_hooks, client, opens, sent, hop, resp, response, open,
                   received, chain, out, writes, reported, task, exc, exitCode, fmtIn, fmtOut>>

\* lines 393-394
ResolveMethod ==
    /\ pc = "main"
    /\ method' = ResolvedMethod(args.method, args.content, args.data, args.files, json)
    /\ pc' = "hooks"
    /\ UNCHANGED <<args, json, event_hooks, client, opens, sent, hop, resp, response, open,
                   received, chain, out, writes, reported, task, exc, exitCode, fmtIn, fmtOut>>

\* A plausible slip: the request printer is registered whether or not
\* --verbose was given.
RegisterHooksAlways ==
    /\ pc = "hooks"
    /\ event_hooks' =
           [request  |-> <<"print_request_headers">>,
            response |-> IF args.follow_redirects THEN <<"print_redirects">> ELSE <<>>]
    /\ pc' = "client"
    /\ UNCHANGED <<args, json, method, client, opens, sent, hop, resp, response>>
    /\ UNCHANGED <<open, received, chain, out, writes, reported, task, exc, exitCode,
                   fmtIn, fmtOut>>

\* lines 396-400
RegisterHooks ==
    /\ pc = "hooks"
    /\ event_hooks' =
           [request  |-> IF args.verbose THEN <<"print_request_headers">> ELSE <<>>,
            response |-> IF args.follow_redirects THEN <<"print_redirects">> ELSE <<>>]
    /\ pc' = "client"
    /\ UNCHANGED <<args, json, method, client, opens, sent, hop, resp, response, open,
                   received, chain, out, writes, reported, task, exc, exitCode, fmtIn, fmtOut>>

\* lines 403-409: with Client(...) as client
OpenClient ==
    /\ pc = "client"
    /\ client' = "open"
    /\ opens' = opens + 1
    /\ pc' = "stream"
    /\ UNCHANGED <<args, json, method, event_hooks, sent, hop, resp, response, open,
                   received, chain, out, writes, reported, task, exc, exitCode, fmtIn, fmtOut>>

\* lines 410-422: client.stream(method, url, ...) is called with every body
\* option as given; the Client starts on the first hop.
CallStream ==
    /\ pc = "stream"
    /\ hop' = 1
    /\ pc' = "c_request"
    /\ UNCHANGED <<args, json, method, event_hooks, client, opens, sent, resp, response, open,
                   received, chain, out, writes, reported, task, exc, exitCode, fmtIn, fmtOut>>

(***************************************************************************)
(* Inside client.stream: one round per hop.                                *)
(***************************************************************************)
\* A plausible slip: print_redirects never reads the response.
print_redirects_reads_none(r) ==
    FALSE

\* A plausible slip: print_redirects reads and prints every response.
print_redirects_reads_all(r) ==
    TRUE

\* print_redirects, line 146: only a response with a redirect location is
\* read and printed by the hook
print_redirects_reads(r) ==
    r.has_redirect_location

Registered(hooks, name) ==
    \E i \in 1..Len(hooks) : hooks[i] = name


\* The request hooks run before the request is dispatched.  The request's
\* headers were encoded from str as ASCII, so rendering them cannot fail.
Client_FireRequestHooks ==
    /\ pc = "c_request"
    /\ out' = IF Registered(event_hooks.request, "print_request_headers")
              THEN out \o print_request_headers(hop) ELSE out
    /\ pc' = "c_send"
    /\ UNCHANGED <<args, json, method, event_hooks, client, opens, sent, hop, resp, response,
                   open, received, chain, writes, reported, task, exc, exitCode, fmtIn, fmtOut>>

\* The transport raises a RequestError before any response headers arrive.
Client_SendFail ==
    /\ pc = "c_send"
    /\ sent' = sent + 1
    /\ exc' = "RequestError"
    /\ pc' = "unwind"
    /\ UNCHANGED <<args, json, method, event_hooks, client, opens, hop, resp, response,
                   open, received, chain, out, writes, reported, task, exitCode, fmtIn, fmtOut>>

\* The transport delivers the response headers of this hop.
Client_ReceiveFrom(blocks) ==
    /\ pc = "c_send"
    /\ \E r \in Client_Responses(hop, args.follow_redirects, blocks) :
           /\ resp' = r
           /\ chain' = Append(chain, r.status_code)
    /\ sent' = sent + 1
    /\ open' = open \cup {hop}
    /\ received' = <<>>
    /\ pc' = "c_hooks"
    /\ UNCHANGED <<args, json, method, event_hooks, client, opens, hop, response,
                   out, writes, reported, task, exc, exitCode, fmtIn, fmtOut>>

Client_Receive ==
    Client_ReceiveFrom(RunHeaders)

Client_ReceiveShown ==
    Client_ReceiveFrom(ShowHeaders)

\* The response hooks run on every response the Client obtains.
\* print_redirects, line 146-147: a response with a redirect location is read.
Client_FireResponseHooks ==
    /\ pc = "c_hooks"
    /\ pc' = IF Registered(event_hooks.response, "print_redirects")
                  /\ print_redirects_reads(resp)
             THEN "h_read" ELSE "c_next"
    /\ UNCHANGED <<args, json, method, event_hooks, client, opens, sent, hop, resp, response,
                   open, received, chain, out, writes, reported, task, exc, exitCode, fmtIn, fmtOut>>

\* response.read(): the body yields its next chunk
ReadChunk ==
    /\ pc \in {"h_read", "m_read"}
    /\ Len(received) < MaxChunks
    /\ \E c \in Chunks : received' = Append(received, c)
    /\ UNCHANGED <<args, json, method, event_hooks, pc, client, opens, sent, hop, resp,
                   response, open, chain, out, writes, reported, task, exc, exitCode, fmtIn, fmtOut>>

\* response.read(): the body is exhausted, which closes the stream
ReadEnd ==
    /\ pc \in {"h_read", "m_read"}
    /\ open' = open \ {resp.hop}
    /\ pc' = IF pc = "h_read" THEN "h_print" ELSE "m_print"
    /\ UNCHANGED <<args, json, method, event_hooks, client, opens, sent, hop, resp, response,
                   received, chain, out, writes, reported, task, exc, exitCode, fmtIn, fmtOut>>

\* response.read(): the transport raises a RequestError mid-stream
ReadFail ==
    /\ pc \in {"h_read", "m_read"}
    /\ exc' = "RequestError"
    /\ pc' = "unwind"
    /\ UNCHANGED <<args, json, method, event_hooks, client, opens, sent, hop, resp, response,
                   open, received, chain, out, writes, reported, task, exitCode, fmtIn, fmtOut>>

\* print_redirects, lines 148-149
print_redirects_print ==
    /\ pc = "h_print"
    /\ IF format_response_headers(resp).ok
       THEN /\ out' = out \o print_response_headers(resp.hop)
                          \o print_response(resp, Concat(received))
            /\ pc' = "c_next"
            /\ exc' = exc
       ELSE /\ exc' = "UnicodeDecodeError"
            /\ pc' = "unwind"
            /\ out' = out
    /\ UNCHANGED <<args, json, method, event_hooks, client, opens, sent, hop, resp,
                   response, open, received, chain, writes, reported, task, exitCode, fmtIn, fmtOut>>

\* A redirect that is to be followed starts the next hop; any other response
\* is the one client.stream hands to main (line 422, as response).
Client_Next ==
    /\ pc = "c_next"
    /\ IF resp.has_redirect_location /\ args.follow_redirects
       THEN /\ hop' = hop + 1
            /\ pc' = "c_request"
            /\ response' = response
       ELSE /\ response' = resp
            /\ pc' = "m_headers"
            /\ hop' = hop
    /\ UNCHANGED <<args, json, method, event_hooks, client, opens, sent, resp, open,
                   received, chain, out, writes, reported, task, exc, exitCode, fmtIn, fmtOut>>


(***************************************************************************)
(* main(), inside "with client.stream(...) as response".                   *)
(***************************************************************************)

\* line 423, and the branch of line 425
main_print_response_headers ==
    /\ pc = "m_headers"
    /\ IF format_response_headers(response).ok
       THEN /\ out' = out \o print_response_headers(response.hop)
            /\ pc' = IF args.download THEN "download" ELSE "m_read"
            /\ exc' = exc
       ELSE /\ exc' = "UnicodeDecodeError"
            /\ pc' = "unwind"
            /\ out' = out
    /\ UNCHANGED <<args, json, method, event_hooks, client, opens, sent, hop, resp,
                   response, open, received, chain, writes, reported, task, exitCode, fmtIn, fmtOut>>

\* lines 429-431, after response.read() of line 428 has returned
main_print_body ==
    /\ pc = "m_print"
    /\ out' = IF Concat(received) # <<>>
              THEN out \o print_delimiter(response.hop)
                       \o print_response(response, Concat(received))
              ELSE out
    /\ pc' = "unwind"
    /\ UNCHANGED <<args, json, method, event_hooks, client, opens, sent, hop, resp, response,
                   open, received, chain, writes, reported, task, exc, exitCode, fmtIn, fmtOut>>

\* download_response, lines 171-185: an empty line, then the progress task
download_begin ==
    /\ pc = "download"
    /\ out' = Append(out, Event("blank", response.hop, 0))
    /\ LET content_length == HeadersGet(response.headers, ContentLength)
       IN  task' = [started   |-> TRUE,
                    total     |-> IF content_length # <<>> THEN IntOfStr(content_length) ELSE -1,
                    completed |-> 0]
    /\ pc' = "d_loop"
    /\ UNCHANGED <<args, json, method, event_hooks, client, opens, sent, hop, resp,
                   response, open, received, chain, writes, reported, exc, exitCode, fmtIn, fmtOut>>

\* A plausible slip: the progress is given the size of the chunk, not the
\* cumulative count.
download_chunk_reset ==
    /\ pc = "d_loop"
    /\ Len(received) < MaxChunks
    /\ \E chunk \in Chunks :
           /\ received' = Append(received, chunk)
           /\ writes' = Append(writes, chunk)
           /\ reported' = Append(reported, Len(chunk))
           /\ task' = [task EXCEPT !.completed = Len(chunk)]
    /\ UNCHANGED <<args, json, method, event_hooks, pc, client, opens, sent, hop,
                   resp, response, open, chain, out, exc, exitCode, fmtIn, fmtOut>>

\* A plausible slip: a chunk that was yielded is not written.
download_chunk_skip ==
    /\ pc = "d_loop"
    /\ Len(received) < MaxChunks
    /\ \E chunk \in Chunks :
           /\ received' = Append(received, chunk)
           /\ writes' = IF Len(received) = 0 THEN writes ELSE Append(writes, chunk)
           /\ reported' = Append(reported, Response_num_bytes_downloaded(received'))
           /\ task' = [task EXCEPT !.completed = Response_num_bytes_downloaded(received')]
    /\ UNCHANGED <<args, json, method, event_hooks, pc, client, opens, sent, hop,
                   resp, response, open, chain, out, exc, exitCode, fmtIn, fmtOut>>

\* download_response, lines 186-188: one round of the loop
download_chunk ==
    /\ pc = "d_loop"
    /\ Len(received) < MaxChunks
    /\ \E chunk \in Chunks :
           /\ received' = Append(received, chunk)
           /\ writes' = Append(writes, chunk)
           /\ reported' = Append(reported, Response_num_bytes_downloaded(received'))
           /\ task' = [task EXCEPT !.completed = Response_num_bytes_downloaded(received')]
    /\ UNCHANGED <<args, json, method, event_hooks, pc, client, opens, sent, hop,
                   resp, response, open, chain, out, exc, exitCode, fmtIn, fmtOut>>

\* download_response, line 186: iter_bytes is exhausted, which closes the
\* stream; the loop and the function return
download_end ==
    /\ pc = "d_loop"
    /\ open' = open \ {response.hop}
    /\ pc' = "unwind"
    /\ UNCHANGED <<args, json, method, event_hooks, client, opens, sent, hop, resp, response,
                   received, chain, out, writes, reported, task, exc, exitCode, fmtIn, fmtOut>>

\* download_response, line 186: iter_bytes raises a RequestError mid-stream
download_fail ==
    /\ pc = "d_loop"
    /\ exc' = "RequestError"
    /\ pc' = "unwind"
    /\ UNCHANGED <<args, json, method, event_hooks, client, opens, sent, hop, resp, response,
                   open, received, chain, out, writes, reported, task, exitCode, fmtIn, fmtOut>>

(***************************************************************************)
(* Leaving the with blocks, and the ways main ends.                        *)
(***************************************************************************)

\* A plausible slip: the client and the response are used without with, so
\* an exception leaves them open.
ExitWithLeak ==
    /\ pc = "unwind"
    /\ open' = IF exc = "" THEN {} ELSE open
    /\ client' = IF exc = "" THEN "closed" ELSE client
    /\ pc' = CASE exc = ""             -> "exit"
               [] exc = "RequestError" -> "except"
               [] OTHER                -> "uncaught"
    /\ UNCHANGED <<args, json, method, event_hooks, opens, sent, hop, resp, response,
                   received, chain, out, writes, reported, task, exc, exitCode, fmtIn, fmtOut>>

\* lines 403 and 410: the with blocks are left, normally or by an exception:
\* the response and the client are closed, then control goes to line 438, to
\* the handler of line 433, or out of main.
ExitWith ==
    /\ pc = "unwind"
    /\ open' = {}
    /\ client' = "closed"
    /\ pc' = CASE exc = ""             -> "exit"
               [] exc = "RequestError" -> "except"
               [] OTHER                -> "uncaught"
    /\ UNCHANGED <<args, json, method, event_hooks, opens, sent, hop, resp, response,
                   received, chain, out, writes, reported, task, exc, exitCode, fmtIn, fmtOut>>

\* A plausible slip: the handler prints the error and exits 0.
HandleRequestErrorExit0 ==
    /\ pc = "except"
    /\ out' = Append(out, Event("error", hop, 0))
    /\ exitCode' = 0
    /\ pc' = "done"
    /\ UNCHANGED <<args, json, method, event_hooks, client, opens, sent, hop, resp,
                   response, open, received, chain, writes, reported, task, exc, fmtIn, fmtOut>>

\* A plausible slip: the handler exits without printing the error.
HandleRequestErrorSilent ==
    /\ pc = "except"
    /\ exitCode' = 1
    /\ pc' = "done"
    /\ UNCHANGED <<args, json, method, event_hooks, client, opens, sent, hop, resp, response>>
    /\ UNCHANGED <<open, received, chain, writes, reported, task, exc, fmtIn, fmtOut, out>>

\* A plausible slip: the handler prints the error but does not exit, so
\* control falls through to line 438.
HandleRequestErrorFallThrough ==
    /\ pc = "except"
    /\ out' = Append(out, Event("error", hop, 0))
    /\ pc' = "exit"
    /\ UNCHANGED <<args, json, method, event_hooks, client, opens, sent, hop, resp, response>>
    /\ UNCHANGED <<open, received, chain, writes, reported, task, exc, fmtIn, fmtOut, exitCode>>

\* lines 433-436
HandleRequestError ==
    /\ pc = "except"
    /\ out' = Append(out, Event("error", hop, 0))
    /\ exitCode' = 1
    /\ pc' = "done"
    /\ UNCHANGED <<args, json, method, event_hooks, client, opens, sent, hop, resp,
                   response, open, received, chain, writes, reported, task, exc, fmtIn, fmtOut>>

\* A plausible slip: the two exit statuses are swapped.
SysExitSwapped ==
    /\ pc = "exit"
    /\ exitCode' = IF Response_is_success(response) THEN 1 ELSE 0
    /\ pc' = "done"
    /\ UNCHANGED <<args, json, method, event_hooks, client, opens, sent, hop, resp, response>>
    /\ UNCHANGED <<open, received, chain, out, writes, reported, task, exc, fmtIn, fmtOut>>

\* line 438
SysExit ==
    /\ pc = "exit"
    /\ exitCode' = IF Response_is_success(response) THEN 0 ELSE 1
    /\ pc' = "done"
    /\ UNCHANGED <<args, json, method, event_hooks, client, opens, sent, hop, resp, response,
                   open, received, chain, out, writes, reported, task, exc, fmtIn, fmtOut>>

\* An exception that is not a RequestError leaves main: the interpreter
\* prints a traceback on stderr and the process ends with status 1.
Uncaught ==
    /\ pc = "uncaught"
    /\ exitCode' = 1
    /\ pc' = "done"
    /\ UNCHANGED <<args, json, method, event_hooks, client, opens, sent, hop, resp, response,
                   open, received, chain, out, writes, reported, task, exc, fmtIn, fmtOut>>

Next ==
    \/ validate_json_callback
    \/ ResolveMethod
    \/ RegisterHooks
    \/ OpenClient
    \/ CallStream
    \/ Client_FireRequestHooks
    \/ Client_SendFail
    \/ Client_Receive
    \/ Client_FireResponseHooks
    \/ ReadChunk
    \/ ReadEnd
    \/ ReadFail
    \/ print_redirects_print
    \/ Client_Next
    \/ main_print_response_headers
    \/ main_print_body
    \/ download_begin
    \/ download_chunk
    \/ download_end
    \/ download_fail
    \/ ExitWith
    \/ HandleRequestError
    \/ SysExit
    \/ Uncaught

Spec ==
    Init /\ [][Next]_vars

\* main() from the command line to the first response, over every
\* combination of the body options
NextArgs ==
    \/ validate_json_callback
    \/ ResolveMethod
    \/ RegisterHooks
    \/ OpenClient
    \/ CallStream
    \/ Client_FireRequestHooks
    \/ Client_SendFail
    \/ Client_Receive

SpecArgs ==
    InitArgs /\ [][NextArgs]_vars

\* main() without --download, over the content types of ShowHeaders
InitShow ==
    \E a \in ArgsOf(RunBodies) :
        /\ a.method = "" /\ a.content = "" /\ ~a.download
        /\ InitState(a, "options", NoMessage)

NextShow ==
    \/ validate_json_callback
    \/ ResolveMethod
    \/ RegisterHooks
    \/ OpenClient
    \/ CallStream
    \/ Client_FireRequestHooks
    \/ Client_SendFail
    \/ Client_ReceiveShown
    \/ Client_FireResponseHooks
    \/ ReadChunk
    \/ ReadEnd
    \/ ReadFail
    \/ print_redirects_print
    \/ Client_Next
    \/ main_print_response_headers
    \/ main_print_body
    \/ ExitWith
    \/ HandleRequestError
    \/ SysExit

SpecShow ==
    InitShow /\ [][NextShow]_vars


(***************************************************************************)
(* Header rendering on its own: format_request_headers and                 *)
(* format_response_headers applied, twice, to every header sequence of at  *)
(* most MaxHeaders pairs.                                                  *)
(***************************************************************************)
FmtNames == {<<88>>, <<89>>}

\* "a", "b: c" and Latin-1 "\xe9"
FmtValues == {<<97>>, <<98, 58, 32, 99>>, <<233>>}

SeqsUpTo(S, n) ==
    UNION {[1..k -> S] : k \in 0..n}

\* Response headers are the bytes the server sent; request headers were
\* encoded from str as ASCII when the request was built.
FmtMessages ==
    {[kind |-> k, headers |-> h] :
        k \in {"request", "response"}, h \in SeqsUpTo(FmtNames \X FmtValues, MaxHeaders)}
    \ {m \in [kind : {"request"}, headers : SeqsUpTo(FmtNames \X FmtValues, MaxHeaders)] :
          \E i \in 1..Len(m.headers) : ~IsAscii(m.headers[i][2])}

\* the Request and the Response the message stands for
RequestOf(m) ==
    [method |-> <<71, 69, 84>>, target |-> <<47>>, headers |-> m.headers]

ResponseOf(m) ==
    [hop |-> 1, status_code |-> 200, has_redirect_location |-> FALSE,
     http_version |-> HTTP11, reason_phrase |-> <<79, 75>>, headers |-> m.headers]

MaxRenders == 2

InitFmt ==
    \E m \in FmtMessages :
        InitState(CHOOSE a \in ArgsOf(RunBodies) : TRUE, "fmt", m)

\* print_request_headers, line 125
render_request ==
    /\ pc = "fmt"
    /\ fmtIn.kind = "request"
    /\ Len(fmtOut) < MaxRenders
    /\ fmtOut' = Append(fmtOut, format_request_headers(RequestOf(fmtIn)))
    /\ UNCHANGED <<args, json, method, event_hooks, pc, client, opens, sent, hop, resp,
                   response, open, received, chain, out, writes, reported, task, exc,
                   exitCode, fmtIn>>

\* print_response_headers, line 134
render_response ==
    /\ pc = "fmt"
    /\ fmtIn.kind = "response"
    /\ Len(fmtOut) < MaxRenders
    /\ fmtOut' = Append(fmtOut, format_response_headers(ResponseOf(fmtIn)))
    /\ UNCHANGED <<args, json, method, event_hooks, pc, client, opens, sent, hop, resp,
                   response, open, received, chain, out, writes, reported, task, exc,
                   exitCode, fmtIn>>

NextFmt ==
    \/ render_request
    \/ render_response

SpecFmt ==
    InitFmt /\ [][NextFmt]_vars


(***************************************************************************)
(* Properties.                                                             *)
(***************************************************************************)
ExitFor(status) ==
    IF status < 400 THEN 0 ELSE 1

\* the hops of the events of one kind, in the order they were printed
RECURSIVE HopsOf(_, _)
HopsOf(events, kind) ==
    IF events = <<>> THEN <<>>
    ELSE (IF Head(events).kind = kind THEN <<Head(events).hop>> ELSE <<>>)
             \o HopsOf(Tail(events), kind)

ErrorLine(h) ==
    Event("error", h, 0)

\* C1 as stated: for every run that obtains a top-level response the exit
\* code is 0 when its status is in [200,399] and 1 when it is >= 400; a run
\* whose transport fails before response headers are obtained exits 1.
C1_ExitFollowsTopLevelStatus ==
    pc = "done" =>
        /\ chain # <<>> /\ chain[1] \in 200..399 => exitCode = 0
        /\ chain # <<>> /\ chain[1] >= 400 => exitCode = 1
        /\ chain = <<>> => exitCode = 1

\* C1 as amended: a run that reaches the final exit statement (no exception
\* was raised) exits 0 when the status of the response client.stream
\* returned is in [200,399] and 1 when it is >= 400; a run in which the
\* transport raises a RequestError, before or after the response headers
\* are obtained, exits 1.
C1_ExitCodeOfCompletedRun ==
    pc = "done" =>
        /\ exc = "" /\ response.status_code \in 200..399 => exitCode = 0
        /\ exc = "" /\ response.status_code >= 400 => exitCode = 1
        /\ exc = "RequestError" => exitCode = 1

\* a response with status 200 was obtained, its body failed mid-stream, and
\* the run has exited 1
C1_Witness ==
    /\ pc = "done"
    /\ exc = "RequestError"
    /\ response.status_code = 200
    /\ exitCode = 1

\* C2 as stated: with follow-redirects and a chain of one or more redirect
\* hops the exit code is computed from the status of the first response
\* only, whatever the status of the later hops.
C2_ExitFromFirstResponse ==
    (pc = "done" /\ exc = "" /\ args.follow_redirects /\ Len(chain) >= 2)
        => exitCode = ExitFor(chain[1])

\* C2 as amended: with follow-redirects and a chain of one or more redirect
\* hops the exit code is computed from the status of the last response of
\* the chain, the one client.stream returns to main; the status of the
\* earlier hops does not enter it.
C2_ExitFromLastResponse ==
    (pc = "done" /\ exc = "" /\ args.follow_redirects /\ Len(chain) >= 2)
        => /\ response.hop = Len(chain)
           /\ exitCode = ExitFor(chain[Len(chain)])

\* a 301 followed to a 400 has exited 1
C2_Witness ==
    /\ pc = "done"
    /\ exc = ""
    /\ args.follow_redirects
    /\ chain = <<301, 400>>
    /\ exitCode = 1

\* C3 as stated: when the transport fails before the response headers of
\* the top-level request are obtained, whatever the flags, the whole output
\* is the one error line and the exit code is 1.
C3_OnlyTheErrorLine ==
    (pc = "done" /\ chain = <<>>)
        => /\ out = <<ErrorLine(1)>>
           /\ exitCode = 1

\* C3 as amended: when the transport fails before the response headers of
\* the top-level request are obtained, the output is the one error line,
\* preceded, when verbose is set, by the request-header block (and its
\* empty line) that the request hook printed before the request was
\* dispatched; no response-header block and no body is printed; the exit
\* code is 1.
C3_ErrorLineAfterRequestEcho ==
    (pc = "done" /\ chain = <<>>)
        => /\ out = (IF args.verbose
                     THEN <<Event("request_headers", 1, 0), Event("blank", 1, 0)>>
                     ELSE <<>>) \o <<ErrorLine(1)>>
           /\ exitCode = 1

\* a verbose run whose transport failed before any response: three lines
C3_Witness ==
    /\ pc = "done"
    /\ chain = <<>>
    /\ args.verbose
    /\ args.follow_redirects
    /\ Len(out) = 3
    /\ out[3] = ErrorLine(1)

\* C4: with follow-redirects, once a chain of n >= 1 redirect responses and
\* a final response has been obtained, exactly n+1 response header blocks
\* are printed by the end of the run, one per response, in hop order, and
\* no response's body is printed twice.
C4_OneBlockPerHop ==
    (pc = "done" /\ args.follow_redirects /\ Len(chain) >= 2 /\ response # NoResp)
        => /\ HopsOf(out, "response_headers") = [i \in 1..Len(chain) |-> i]
           /\ \A i, j \in 1..Len(out) :
                  (out[i].kind = "body" /\ out[j].kind = "body" /\ out[i].hop = out[j].hop)
                      => i = j


\* a JSON body was supplied and is not empty: any value but null that is
\* not an empty object, array or string
JsonSupplied(v) ==
    /\ v.t # "None"
    /\ v.t \in {"dict", "list", "str"} => v.n > 0

MethodResolved ==
    pc \notin {"options", "main", "bad_parameter"}

\* C5: when no method is given the resolved method is POST if any of
\* content, form data, files or JSON is supplied non-empty and GET if all
\* four are empty; a method that is given is passed on unchanged.
C5_MethodDefault ==
    MethodResolved =>
        /\ args.method # "" => method = args.method
        /\ args.method = "" =>
               method = (IF \/ args.content # ""
                            \/ args.data # <<>>
                            \/ args.files # <<>>
                            \/ JsonSupplied(json)
                         THEN "POST" ELSE "GET")

\* how many of the four body variants are non-empty
BodyVariants ==
    (IF args.content # "" THEN 1 ELSE 0) + (IF args.data # <<>> THEN 1 ELSE 0)
        + (IF args.files # <<>> THEN 1 ELSE 0)
        + (IF args.json_text = "{\"a\": 1}" THEN 1 ELSE 0)

\* C6: when more than one body variant is non-empty the run fails with a
\* configuration error: no client session is opened, no network call is
\* attempted, and exactly one error line is reported.
C6_NoSessionForTwoBodies ==
    BodyVariants > 1 =>
        /\ client = "none"
        /\ opens = 0
        /\ sent = 0
        /\ Len(out) <= 1

Drained ==
    /\ args.download
    /\ task.started
    /\ exc = ""
    /\ pc \in {"unwind", "exit", "done"}

\* C7: in download mode every count reported to the progress sink is the
\* sum of the sizes of the chunks written to the file so far, no count is
\* smaller than the one before it, and once the body is drained the last
\* count (and the task's completed value) is the size of the file.
C7_ProgressMatchesFile ==
    /\ Len(reported) = Len(writes)
    /\ \A i \in 1..Len(reported) : reported[i] = SumLen(SubSeq(writes, 1, i))
    /\ \A i \in 1..(Len(reported) - 1) : reported[i] <= reported[i + 1]
    /\ task.completed = Len(Concat(writes))
    /\ Drained /\ reported # <<>> => reported[Len(reported)] = Len(Concat(writes))

\* two chunks were downloaded and the body is drained
C7_Witness ==
    /\ Drained
    /\ pc = "done"
    /\ writes = << <<49>>, <<91, 49, 93>> >>
    /\ reported = <<1, 4>>

\* C8: on every exit path of main the response streams and the client
\* session of the run are closed before the exit code is emitted, and the
\* session is acquired at most once.
C8_ClosedBeforeExit ==
    /\ opens <= 1
    /\ pc \in {"exit", "except", "uncaught", "done"} =>
           /\ client = "closed"
           /\ opens = 1
           /\ open = {}

\* a run whose transport failed mid-stream, after the headers, has exited
C8_Witness ==
    /\ pc = "done"
    /\ exitCode = 1
    /\ exc = "RequestError"
    /\ chain # <<>>
    /\ received # <<>>
    /\ client = "closed"

\* C9: in download mode the file holds the chunks the downloaded response's
\* body yielded, each once and in order; that body is never printed; the
\* bodies of redirect hops are not written to the file; and nothing is
\* written without a download target.
C9_FileIsDownloadedBody ==
    /\ ~args.download => writes = <<>>
    /\ response = NoResp => writes = <<>>
    /\ args.download /\ response # NoResp =>
           /\ writes = received
           /\ \A i \in 1..Len(out) : out[i].kind = "body" => out[i].hop < response.hop

\* a followed redirect whose body was printed, then a two-chunk download
C9_Witness ==
    /\ pc = "done"
    /\ exc = ""
    /\ args.download
    /\ args.follow_redirects
    /\ response.hop = 2
    /\ writes = << <<91, 49, 93>>, <<49>> >>
    /\ \E i \in 1..Len(out) : out[i].kind = "body" /\ out[i].hop = 1 /\ out[i].n > 0

\* the lines of a text: text.split("\n")
RECURSIVE SplitLines(_)
SplitLines(text) ==
    IF \A i \in 1..Len(text) : text[i] # LF THEN <<text>>
    ELSE LET k == CHOOSE i \in 1..Len(text) :
                      text[i] = LF /\ \A j \in 1..(i - 1) : text[j] # LF
         IN  <<SubSeq(text, 1, k - 1)>> \o SplitLines(SubSeq(text, k + 1, Len(text)))

FirstLine(m) ==
    IF m.kind = "request" THEN <<71, 69, 84, SP, 47, SP>> \o HTTP11
    ELSE HTTP11 \o <<SP, 50, 48, 48, SP, 79, 75>>

\* C10: header rendering yields the request or status line followed by one
\* "Name: Value" line per header pair, in the order of the input, headers
\* of the same name all kept; rendering twice yields the same text.
C10_OneLinePerHeader ==
    \A k \in 1..Len(fmtOut) :
        /\ fmtOut[k].ok
        /\ SplitLines(fmtOut[k].text) =
               <<FirstLine(fmtIn)>>
                   \o [i \in 1..Len(fmtIn.headers) |->
                          fmtIn.headers[i][1] \o <<COLON, SP>> \o fmtIn.headers[i][2]]
        /\ fmtOut[k] = fmtOut[1]


\* the response header block of hop h has been printed
HeadersPrinted(h) ==
    \E i \in 1..Len(out) : out[i].kind = "response_headers" /\ out[i].hop = h

\* C11: for every response of the run, top-level or redirect hop, its
\* header block is printed before any byte of its body is consumed.
C11_HeadersBeforeBody ==
    (resp # NoResp /\ received # <<>>) => HeadersPrinted(resp.hop)

\* C12: without a download target, a body is printed only for a response
\* whose drained content is non-empty, every printed body comes right after
\* a separator line that follows the header block of the same response, and
\* a response that was drained with non-empty content has its body printed.
C12_BodyAfterSeparator ==
    ~args.download =>
        /\ \A i \in 1..Len(out) :
               out[i].kind = "body" =>
                   /\ out[i].n > 0
                   /\ i > 2
                   /\ out[i - 1].kind = "blank"
                   /\ out[i - 2] = Event("response_headers", out[i].hop, 0)
        /\ (pc = "done" /\ exc = "" /\ received # <<>>) =>
               \E i \in 1..Len(out) : out[i].kind = "body" /\ out[i].hop = response.hop


HookRegistered ==
    Registered(event_hooks.response, "print_redirects")

HopsAre(kind, n) ==
    HopsOf(out, kind) = [i \in 1..n |-> i]

\* C14: a request-header block is printed exactly when verbose is set, one
\* per dispatched request and before the response-header block of the same
\* hop; a response-header block is printed for every obtained response,
\* verbose or not; the redirect handler is registered exactly when
\* follow-redirects is set, and the hooks do not change once the client is
\* constructed.
C14_HeaderBlocksAndHooks ==
    /\ client # "none" =>
           /\ Registered(event_hooks.request, "print_request_headers") <=> args.verbose
           /\ Registered(event_hooks.response, "print_redirects") <=> args.follow_redirects
    /\ HopsOf(out, "request_headers") =
           (IF args.verbose /\ hop >= 1
            THEN [i \in 1..(IF pc = "c_request" THEN hop - 1 ELSE hop) |-> i]
            ELSE <<>>)
    /\ \A i, j \in 1..Len(out) :
           (out[i].kind = "request_headers" /\ out[j].kind = "response_headers"
                /\ out[i].hop = out[j].hop) => i < j
    /\ pc = "done" => HopsAre("response_headers", Len(chain))


\* C15: at most one response is open at any time, a hop's body is fully
\* read (its stream closed) before the next hop's request is made, a body
\* is read only while its stream is open, and main starts on a response
\* whose body has not been read, so that no body is drained twice.
C15_OneOpenResponse ==
    /\ Cardinality(open) <= 1
    /\ open \subseteq {resp.hop}
    /\ pc \in {"h_read", "m_read", "d_loop"} => resp.hop \in open
    /\ pc = "m_headers" => response.hop \in open /\ received = <<>>
    /\ (pc \in {"c_request", "c_send"} /\ hop >= 2) => open = {}

\* main is reading the body of the second hop; the first is closed
C15_Witness ==
    /\ pc = "m_read"
    /\ response.hop = 2
    /\ open = {2}
    /\ received # <<>>
    /\ \E i \in 1..Len(out) : out[i].kind = "body" /\ out[i].hop = 1


ErrorLines ==
    {i \in 1..Len(out) : out[i].kind = "error"}

\* the media type of the response's Content-Type header, parameters and
\* spaces dropped; <<>> when there is no such header
MimeOf(r) ==
    Strip(Partition(HeadersGet(r.headers, ContentType), SEMICOLON))

\* the body of r was printed last, and as the raw text wherever it could not
\* be presented
ShownRaw(r, content) ==
    /\ out # <<>>
    /\ LET e == out[Len(out)]
       IN  /\ e.kind = "body"
           /\ e.hop = r.hop
           /\ (MimeOf(r) = MimeJson /\ ~Response_json(content).ok) =>
                  e.text = content
           /\ MimeOf(r) \notin {MimeJson, MimeHtml} =>
                  e.lexer = "" /\ e.text = content

\* C16: a presentation failure never aborts the run.  Once print_response
\* has returned, in main or in the print_redirects hook, no exception is
\* pending and the body was printed: as the raw text when the content type
\* is JSON and the body does not parse, and as the raw text, without a
\* lexer, when the content type is missing or unrecognized.  The run then
\* exits with the code the status of the response main was handed
\* determines.
C16_RawTextOnPresentationFailure ==
    /\ (pc = "c_next" /\ HookRegistered /\ resp.has_redirect_location) =>
           exc = "" /\ ShownRaw(resp, Concat(received))
    /\ (pc \in {"unwind", "exit", "done"} /\ exc = "" /\ ~args.download
            /\ Concat(received) # <<>>) =>
           /\ ShownRaw(response, Concat(received))
           /\ pc # "done" => ENABLED NextShow
           /\ pc = "done" => exitCode = ExitFor(response.status_code)

\* a run that printed a body declared as JSON that is not JSON ("1[1]"),
\* raw, and exited 0
C16_Witness ==
    /\ pc = "done"
    /\ exitCode = 0
    /\ MimeOf(response) = MimeJson
    /\ out[Len(out)].lexer = "JSON"
    /\ out[Len(out)].text = <<49, 91, 49, 93>>

\* C17: a transport failure raised after response headers were obtained
\* (while a body is read or downloaded, or while a later hop is requested)
\* ends the run with exactly one error line, which is the last thing
\* printed, and exit code 1, whatever the statuses received; no request is
\* dispatched again.
C17_OneErrorLineAfterHeaders ==
    (pc = "done" /\ exc = "RequestError" /\ chain # <<>>) =>
        /\ exitCode = 1
        /\ ErrorLines = {Len(out)}
        /\ sent \in {Len(chain), Len(chain) + 1}
        /\ sent <= hop

\* a 301 was followed and the request of the second hop failed
C17_Witness ==
    /\ pc = "done"
    /\ exc = "RequestError"
    /\ chain = <<301>>
    /\ sent = 2
    /\ exitCode = 1
    /\ HeadersPrinted(1)

\* C18: a run of main ends with exactly one exit code, 0 or 1: no exit code
\* exists before the run is over, every state before the end has a next
\* step, and the final exit statement, which reads response, is reached
\* only with response bound; the handler of RequestError exits by itself.
C18_OneExitCode ==
    /\ pc = "done" => exitCode \in {0, 1}
    /\ pc # "done" => exitCode = NoExit
    /\ pc \notin {"done", "bad_parameter"} => ENABLED Next
    /\ pc = "exit" => response # NoResp /\ exc = ""
    /\ pc = "except" => exc = "RequestError"

\* the transport failed before any response: response was never bound and
\* the run has exited 1
C18_Witness ==
    /\ pc = "done"
    /\ exc = "RequestError"
    /\ response = NoResp
    /\ chain = <<>>
    /\ exitCode = 1

====
